---- MODULE Spec2Model ----
(***************************************************************************)
(* PhotonAi: the per-tick physics simulator (game.py: Simulator), the      *)
(* controller bank (game.py: Controllers), the game driver (game.py:       *)
(* run_game) and the child-process bot channel (bot.py: SubprocessBot).    *)
(*                                                                         *)
(* Numbers.  The program computes in floating point; the model computes    *)
(* in integers.  Lengths (position, radius, dimensions) are stored in      *)
(* HALF length units, so that the dt/2 of the position integration stays   *)
(* integral; velocities and accelerations are in whole length units per    *)
(* time unit.  Orientation is stored in quarter turns (4 = 2*pi).          *)
(* Temperature is stored in thousandths.  A Python None is the empty       *)
(* sequence << >>, a present value v is << v >>.                           *)
(***************************************************************************)
EXTENDS Integers, Sequences, FiniteSets, TLC

VARIABLES
    \* ---- run_game / Controllers / World ----
    map,        \* the inputs of run_game: map_spec, the bots' ships, step_duration
    pc,         \* position of the run_game generator
    world,      \* world_: clock, time, space, objects
    control,    \* Controllers.control: ship id -> control (or None)
    nextId,     \* the next value of object_id_gen (it.count())
    botIdx,     \* position of the loop of Controllers.__call__ over _ids_bots
    steps,      \* the steps yielded so far: <<[clock, duration, events]>>
    snapshot,   \* world_.objects as they were when the last simulator call ran
    events,     \* the events the last simulator call returned (the step's data)
    sent,       \* per bot: the ship_id of every request issued to it, in order
    last,       \* the latest bot invocation: who, outcome, the control held before
    abort,      \* why the generator ended with an error ("" while it has not)
    \* ---- SubprocessBot and its child process ----
    caller,     \* the thread that calls __call__ and close: where it is
    ncalls,     \* the number of __call__ invocations so far (= requests submitted)
    futures,    \* the futures pool.submit returned, by request number
    queue,      \* the work queue of self._pool: submitted, not yet taken
    worker,     \* the one worker thread of self._pool: where it is in execute
    shut,       \* self._pool.shutdown was called
    child,      \* the child process: running, mute (stdout closed), exited, killed
    stdinOpen,  \* the parent's end of the child's stdin is open
    cin,        \* requests written to the child's stdin, not yet consumed by it
    cout,       \* responses the child wrote to its stdout, not yet read
    written,    \* every request written to the child, in order
    readlog,    \* every response read from the child, in order
    returned,   \* every value a __call__ returned: <<[req, resp]>>
    timedOut,   \* the requests whose __call__ raised TimeoutError
    rejected    \* the number of __call__ invocations refused after shutdown

gameVars == <<map, pc, world, control, nextId, botIdx, steps, snapshot, events,
              sent, last, abort>>

botVars == <<caller, ncalls, futures, queue, worker, shut, child, stdinOpen, cin,
             cout, written, readlog, returned, timedOut, rejected>>

vars == <<gameVars, botVars>>

----------------------------------------------------------------------------
(* Bounds of the model *)

\* the largest configured lifetime of a game (space.lifetime)
MaxLifetime == 6
\* the largest step_duration
MaxStepDuration == 2
\* the largest number of __call__ invocations on one SubprocessBot
MaxCalls == 3
\* the largest number of simulator calls on one snapshot
MaxTicks == 3

----------------------------------------------------------------------------
(* Values *)

None == << >>
Some(v) == << v >>
IsNone(o) == o = << >>
Val(o) == o[1]

Range(s) == { s[i] : i \in DOMAIN s }

Abs(x) == IF x < 0 THEN -x ELSE x

\* float division of a by b > 0, truncated toward zero to the model's resolution
TruncDiv(a, b) == IF a >= 0 THEN a \div b ELSE -((-a) \div b)

RECURSIVE Pow(_, _)
Pow(b, e) == IF e = 0 THEN 1 ELSE b * Pow(b, e - 1)

Max(a, b) == IF a >= b THEN a ELSE b

\* np.clip(x, lo, hi)
Clip(x, lo, hi) == IF x < lo THEN lo ELSE IF x > hi THEN hi ELSE x

\* util.Vector: 2-D vectors
VecZero == <<0, 0>>
VecAdd(a, b) == <<a[1] + b[1], a[2] + b[2]>>
VecSub(a, b) == <<a[1] - b[1], a[2] - b[2]>>
VecScale(k, a) == <<k * a[1], k * a[2]>>
\* ((a - b) ** 2).sum()
DistSq(a, b) == (a[1] - b[1]) * (a[1] - b[1]) + (a[2] - b[2]) * (a[2] - b[2])

\* util.direction(orientation): the unit vector of an orientation
\* (orientation in quarter turns)
direction(orientation) ==
    CASE orientation % 4 = 0 -> <<1, 0>>
      [] orientation % 4 = 1 -> <<0, 1>>
      [] orientation % 4 = 2 -> <<-1, 0>>
      [] orientation % 4 = 3 -> <<0, -1>>

\* Controllers.DEFAULT_STATE
DEFAULT_STATE == [fire |-> FALSE, rotate |-> 0, thrust |-> 0]

----------------------------------------------------------------------------
(* game.py: the physics of one step *)

\* the identifiers of a dict of objects in iteration order: World adds objects
\* in the order of their create events, which is the order of their ids
RECURSIVE SortedIds(_)
SortedIds(S) ==
    IF S = {} THEN << >>
    ELSE LET m == CHOOSE x \in S : \A y \in S : x <= y
         IN  <<m>> \o SortedIds(S \ {m})

\* (mutant) the subject is tested against the bodies created before it only
_is_collision_with_earlier(id, objs) ==
    \E o \in DOMAIN objs :
        /\ o < id
        /\ DistSq(objs[o].pos, objs[id].pos)
             < (objs[id].radius + objs[o].radius) * (objs[id].radius + objs[o].radius)

\* _is_collision(subject, others), the subject being objs[id]
_is_collision(id, objs) ==
    \E o \in DOMAIN objs :
        /\ o # id
        /\ DistSq(objs[o].pos, objs[id].pos)
             < (objs[id].radius + objs[o].radius) * (objs[id].radius + objs[o].radius)

\* one term of the gravity loop of _move_body:
\* (gravity * other.mass / (relative ** 2).sum()) * relative.
\* In half length units relative = rel/2 and its square = d/4.
GravityTerm(subject, other, gravity) ==
    LET rel == VecSub(other.pos, subject.pos)
        d == DistSq(other.pos, subject.pos)
    IN  <<TruncDiv(2 * gravity * other.mass * rel[1], d),
          TruncDiv(2 * gravity * other.mass * rel[2], d)>>

RECURSIVE GravitySum(_, _, _, _)
GravitySum(ids, id, objs, gravity) ==
    IF ids = << >> THEN VecZero
    ELSE LET rest == GravitySum(Tail(ids), id, objs, gravity)
         IN  IF Head(ids) = id THEN rest
             ELSE VecAdd(GravityTerm(objs[id], objs[Head(ids)], gravity), rest)

\* The gravity loop divides by the squared distance without a guard: a massive
\* subject that passed the collision test and coincides with another body
\* divides by zero (nan in floating point), which the model's integers do not
\* represent.
Singular(id, objs) ==
    /\ objs[id].mass # 0
    /\ ~(objs[id].kind \in {"Ship", "Pellet"} /\ _is_collision(id, objs))
    /\ \E o \in DOMAIN objs : o # id /\ objs[o].pos = objs[id].pos

\* the out-of-bounds test of _move_body for pellets
PelletOutOfBounds(new_position, dimensions) ==
    /\ (new_position[1] < 0 \/ new_position[2] < 0)
    /\ (dimensions[1] <= new_position[1] \/ dimensions[2] <= new_position[2])

\* the acceleration of _move_body: the thrust of the control, then gravity
\* (massless objects experience no gravity)
Accel(id, objs, space, ctl) ==
    VecAdd(IF IsNone(ctl) THEN VecZero
           ELSE VecScale(objs[id].max_thrust * Clip(Val(ctl).thrust, 0, 1),
                         direction(objs[id].ori)),
           IF objs[id].mass # 0
           THEN GravitySum(SortedIds(DOMAIN objs), id, objs, space.gravity)
           ELSE VecZero)

\* position + (dt / 2) * velocity + (dt / 2) * new_velocity, in half length
\* units, with new_velocity = velocity + dt * accel
Integrate(subject, accel, dt) ==
    VecAdd(subject.pos,
           VecScale(dt, VecAdd(subject.vel, VecAdd(subject.vel, VecScale(dt, accel)))))

\* Ships should wrap around the world
NewPosition(subject, space, moved) ==
    IF subject.kind = "Ship"
    THEN <<moved[1] % space.dimensions[1], moved[2] % space.dimensions[2]>>
    ELSE moved

NewOrientation(subject, ctl, dt) ==
    IF IsNone(ctl) THEN subject.ori
    ELSE (subject.ori + dt * subject.max_rotate * Clip(Val(ctl).rotate, -1, 1)) % 4

\* steps 2 and 3 of _move_body, for a subject that does not collide
MoveFree(subject, space, ctl, dt, accel, new_position) ==
    IF subject.kind = "Pellet" /\ PelletOutOfBounds(new_position, space.dimensions)
    THEN [destroy |-> TRUE, pos |-> subject.pos, vel |-> subject.vel,
          ori |-> subject.ori]
    ELSE [destroy |-> FALSE, pos |-> new_position,
          vel |-> VecAdd(subject.vel, VecScale(dt, accel)),
          ori |-> NewOrientation(subject, ctl, dt)]

MoveWith(subject, space, ctl, dt, accel) ==
    MoveFree(subject, space, ctl, dt, accel,
             NewPosition(subject, space, Integrate(subject, accel, dt)))

\* _move_body(subject, world_, control, dt): destroy |-> TRUE is raise _Destroy
_move_body(id, objs, space, ctl, dt) ==
    IF objs[id].kind \in {"Ship", "Pellet"} /\ _is_collision(id, objs)
    THEN [destroy |-> TRUE, pos |-> objs[id].pos, vel |-> objs[id].vel,
          ori |-> objs[id].ori]
    ELSE MoveWith(objs[id], space, ctl, dt, Accel(id, objs, space, ctl))

\* weapon.reload and weapon.temperature after the step and before the shot:
\* reload = max(0, weapon.reload - dt); temperature = decay_ratio *
\* weapon.temperature with decay_ratio =
\* (max_temperature / (max_temperature + 1)) ** (dt / temperature_decay)
\* (mutant) the weapon is reloaded after any step
ReloadedAtOnce(weapon, dt) == Max(0, weapon.reload - weapon.max_reload)

Reloaded(weapon, dt) == Max(0, weapon.reload - dt)
Cooled(weapon, dt) ==
    (weapon.temperature * Pow(weapon.max_temperature, dt \div weapon.temperature_decay))
        \div Pow(weapon.max_temperature + 1, dt \div weapon.temperature_decay)

WeaponWith(weapon, fired, reload, temperature) ==
    [weapon |-> [weapon EXCEPT !.reload = IF fired THEN weapon.max_reload ELSE reload,
                               !.temperature = IF fired THEN temperature + 1000
                                               ELSE temperature],
     fired |-> fired]

\* (mutant) the weapon fires whatever its temperature
FiresWhenHot(weapon, control_fire, reload, temperature) ==
    control_fire /\ reload = 0

Fires(weapon, control_fire, reload, temperature) ==
    control_fire /\ reload = 0 /\ temperature < 1000 * weapon.max_temperature

\* _update_weapon(weapon, control_fire, dt): the new weapon state and `fired`
_update_weapon(weapon, control_fire, dt) ==
    WeaponWith(weapon,
               Fires(weapon, control_fire, Reloaded(weapon, dt), Cooled(weapon, dt)),
               Reloaded(weapon, dt), Cooled(weapon, dt))

\* _fire_pellet(ship, body_state): the body a Pellet create event describes
_fire_pellet(ship, body_state) ==
    LET dir == direction(body_state.ori)
    IN  [kind |-> "Pellet", mass |-> 0, radius |-> 0,
         \* position + 1.01 * ship.radius * direction
         pos |-> VecAdd(body_state.pos,
                        <<TruncDiv(101 * ship.radius * dir[1], 100),
                          TruncDiv(101 * ship.radius * dir[2], 100)>>),
         vel |-> VecAdd(body_state.vel, VecScale(Val(ship.weapon).speed, dir)),
         ori |-> body_state.ori,
         max_thrust |-> 0, max_rotate |-> 0, weapon |-> None,
         ttl |-> Val(ship.weapon).time_to_live, ctrl |-> None]

\* An event dict(id=..., data=...): op tells what its data is: a create payload,
\* an update state, or the empty dict() of a destroy (body = None).
Event(id, op, body) == [id |-> id, op |-> op, body |-> body]

Moved(obj, body) == [obj EXCEPT !.pos = body.pos, !.vel = body.vel, !.ori = body.ori]

\* (mutant) the pellet takes the generator's value without advancing it
ShipEventsSameId(id, obj, body, ctl, w, nid) ==
    IF w.fired
    THEN [raised |-> FALSE,
          evs |-> <<Event(nid, "create", Some(_fire_pellet(obj, body))),
                    Event(id, "update",
                          Some([Moved(obj, body) EXCEPT !.ctrl = ctl,
                                                        !.weapon = Some(w.weapon)]))>>,
          nid |-> nid]
    ELSE [raised |-> FALSE,
          evs |-> <<Event(id, "update",
                          Some([Moved(obj, body) EXCEPT !.ctrl = ctl,
                                                        !.weapon = Some(w.weapon)]))>>,
          nid |-> nid]

\* the Ship branch of _update_object once the weapon is updated
ShipEvents(id, obj, body, ctl, w, nid) ==
    IF w.fired
    THEN [raised |-> FALSE,
          evs |-> <<Event(nid, "create", Some(_fire_pellet(obj, body))),
                    Event(id, "update",
                          Some([Moved(obj, body) EXCEPT !.ctrl = ctl,
                                                        !.weapon = Some(w.weapon)]))>>,
          nid |-> nid + 1]
    ELSE [raised |-> FALSE,
          evs |-> <<Event(id, "update",
                          Some([Moved(obj, body) EXCEPT !.ctrl = ctl,
                                                        !.weapon = Some(w.weapon)]))>>,
          nid |-> nid]

\* (mutant) the pellet's update is yielded before its expiry is noticed
UpdateWithPartial(id, obj, body, ctl, dt, nid) ==
    IF body.destroy
    THEN [raised |-> FALSE, evs |-> <<Event(id, "destroy", None)>>, nid |-> nid]
    ELSE IF obj.kind = "Ship"
    THEN IF IsNone(ctl)
         THEN [raised |-> TRUE, evs |-> << >>, nid |-> nid]
         ELSE ShipEvents(id, obj, body, ctl,
                         _update_weapon(Val(obj.weapon), Val(ctl).fire, dt), nid)
    ELSE IF obj.kind = "Pellet"
    THEN IF obj.ttl - dt <= 0
         THEN [raised |-> FALSE,
               evs |-> <<Event(id, "update",
                               Some([Moved(obj, body) EXCEPT !.ttl = obj.ttl - dt])),
                         Event(id, "destroy", None)>>,
               nid |-> nid]
         ELSE [raised |-> FALSE,
               evs |-> <<Event(id, "update",
                               Some([Moved(obj, body) EXCEPT !.ttl = obj.ttl - dt]))>>,
               nid |-> nid]
    ELSE [raised |-> FALSE, evs |-> <<Event(id, "update", Some(Moved(obj, body)))>>,
          nid |-> nid]

\* (mutant) a pellet expires only when its time_to_live falls below 0
UpdateWithLateExpiry(id, obj, body, ctl, dt, nid) ==
    IF body.destroy
    THEN [raised |-> FALSE, evs |-> <<Event(id, "destroy", None)>>, nid |-> nid]
    ELSE IF obj.kind = "Ship"
    THEN IF IsNone(ctl)
         THEN [raised |-> TRUE, evs |-> << >>, nid |-> nid]
         ELSE ShipEvents(id, obj, body, ctl,
                         _update_weapon(Val(obj.weapon), Val(ctl).fire, dt), nid)
    ELSE IF obj.kind = "Pellet"
    THEN IF obj.ttl - dt < 0
         THEN [raised |-> FALSE, evs |-> <<Event(id, "destroy", None)>>, nid |-> nid]
         ELSE [raised |-> FALSE,
               evs |-> <<Event(id, "update",
                               Some([Moved(obj, body) EXCEPT !.ttl = obj.ttl - dt]))>>,
               nid |-> nid]
    ELSE [raised |-> FALSE, evs |-> <<Event(id, "update", Some(Moved(obj, body)))>>,
          nid |-> nid]

\* _update_object after its call of _move_body
UpdateWith(id, obj, body, ctl, dt, nid) ==
    IF body.destroy
    THEN [raised |-> FALSE, evs |-> <<Event(id, "destroy", None)>>, nid |-> nid]
    ELSE IF obj.kind = "Ship"
    THEN IF IsNone(ctl)
         THEN [raised |-> TRUE, evs |-> << >>, nid |-> nid]
         ELSE ShipEvents(id, obj, body, ctl,
                         _update_weapon(Val(obj.weapon), Val(ctl).fire, dt), nid)
    ELSE IF obj.kind = "Pellet"
    THEN IF obj.ttl - dt <= 0
         THEN [raised |-> FALSE, evs |-> <<Event(id, "destroy", None)>>, nid |-> nid]
         ELSE [raised |-> FALSE,
               evs |-> <<Event(id, "update",
                               Some([Moved(obj, body) EXCEPT !.ttl = obj.ttl - dt]))>>,
               nid |-> nid]
    ELSE [raised |-> FALSE, evs |-> <<Event(id, "update", Some(Moved(obj, body)))>>,
          nid |-> nid]

\* Simulator._update_object(id, control): the events the generator yields
\* (evs), whether it ends with the TypeError of control['fire'] on a None
\* control (raised), and the id generator afterwards (nid).
_update_object(id, objs, space, ctl, dt, nid) ==
    UpdateWith(id, objs[id], _move_body(id, objs, space, ctl, dt), ctl, dt, nid)

\* controller_states.get(id)
ControlFor(controller_states, id) ==
    IF id \in DOMAIN controller_states THEN controller_states[id] ELSE None

Combine(one, rest) ==
    [raised |-> rest.raised, evs |-> one.evs \o rest.evs, nid |-> rest.nid]

\* Simulator.__call__(controller_states): the list comprehension over
\* self._world.objects, in iteration order; an error ends it
RECURSIVE SimulateFrom(_, _, _, _, _, _)
SimulateNext(one, ids, objs, space, controller_states, dt) ==
    IF one.raised THEN one
    ELSE Combine(one, SimulateFrom(ids, objs, space, controller_states, dt, one.nid))

SimulateFrom(ids, objs, space, controller_states, dt, nid) ==
    IF ids = << >> THEN [raised |-> FALSE, evs |-> << >>, nid |-> nid]
    ELSE SimulateNext(_update_object(Head(ids), objs, space,
                                     ControlFor(controller_states, Head(ids)), dt, nid),
                      Tail(ids), objs, space, controller_states, dt)

Simulate(objs, space, controller_states, dt, nid) ==
    SimulateFrom(SortedIds(DOMAIN objs), objs, space, controller_states, dt, nid)

\* some body of the snapshot makes the gravity loop divide by zero
AnySingular(objs) == \E id \in DOMAIN objs : Singular(id, objs)

----------------------------------------------------------------------------
(* world.World, as game.py uses it *)

\* World applies one event of a step's data: a destroy (empty data) removes the
\* object, a create adds it, an update replaces its state
ApplyEvent(objs, ev) ==
    IF ev.op = "destroy"
    THEN [i \in DOMAIN objs \ {ev.id} |-> objs[i]]
    ELSE [i \in DOMAIN objs \cup {ev.id} |-> IF i = ev.id THEN Val(ev.body) ELSE objs[i]]

RECURSIVE ApplyEvents(_, _)
ApplyEvents(objs, evs) ==
    IF evs = << >> THEN objs
    ELSE ApplyEvents(ApplyEvent(objs, Head(evs)), Tail(evs))

\* world_(step_) for a step whose data is a list of events: the clock becomes the
\* step's clock, the elapsed time grows by the step's duration
WorldStep(w, clock, duration, evs) ==
    [w EXCEPT !.clock = clock, !.time = w.time + duration,
              !.objects = ApplyEvents(w.objects, evs)]

\* world_(step_) for the first step, whose data is the space
WorldSpace(w, clock, duration, space) ==
    [w EXCEPT !.clock = clock, !.time = w.time + duration, !.space = Some(space)]

NoObjects == [i \in {} |-> 0]

----------------------------------------------------------------------------
(* The inputs of a game *)

Weapon(max_reload, max_temperature, speed, time_to_live) ==
    [reload |-> 0, temperature |-> 0, max_reload |-> max_reload,
     max_temperature |-> max_temperature, temperature_decay |-> 1,
     speed |-> speed, time_to_live |-> time_to_live]

\* map_spec.ship(dict(state=Controllers.DEFAULT_STATE, **controller))
Ship(pos, vel, ori, weapon) ==
    [kind |-> "Ship", mass |-> 10, radius |-> 100, pos |-> pos, vel |-> vel,
     ori |-> ori, max_thrust |-> 10, max_rotate |-> 1, weapon |-> Some(weapon),
     ttl |-> 0, ctrl |-> Some(DEFAULT_STATE)]

Planet(pos, mass, radius) ==
    [kind |-> "Planet", mass |-> mass, radius |-> radius, pos |-> pos,
     vel |-> VecZero, ori |-> 0, max_thrust |-> 0, max_rotate |-> 0,
     weapon |-> None, ttl |-> 0, ctrl |-> None]

Pellet(pos, vel, ttl) ==
    [kind |-> "Pellet", mass |-> 0, radius |-> 0, pos |-> pos, vel |-> vel,
     ori |-> 0, max_thrust |-> 0, max_rotate |-> 0, weapon |-> None,
     ttl |-> ttl, ctrl |-> None]

Space(gravity) == [dimensions |-> <<400, 400>>, gravity |-> gravity]

\* The scenarios: map_spec.space, map_spec.planets and the ships map_spec.ship
\* makes for the controllers
Scenarios ==
    { \* two ships facing each other, touching but not overlapping
      [space |-> Space(0), planets |-> << >>,
       ships |-> << Ship(<<100, 200>>, VecZero, 0, Weapon(2, 2, 50, 3)),
                    Ship(<<300, 200>>, VecZero, 2, Weapon(1, 1, 50, 1)) >>],
      \* two ships created overlapping: both collide on the first tick
      [space |-> Space(0), planets |-> << >>,
       ships |-> << Ship(<<100, 100>>, VecZero, 0, Weapon(1, 2, 50, 2)),
                    Ship(<<150, 100>>, VecZero, 1, Weapon(1, 2, 50, 2)) >>],
      \* a planet and a ship under gravity
      [space |-> Space(100), planets |-> << Planet(<<200, 200>>, 100, 50) >>,
       ships |-> << Ship(<<200, 380>>, VecZero, 1, Weapon(1, 2, 50, 2)) >>],
      \* a ship drifting out through the corner, firing across the edge
      [space |-> Space(0), planets |-> << >>,
       ships |-> << Ship(<<50, 370>>, <<-20, 0>>, 1, Weapon(1, 2, 50, 3)) >>],
      \* a degenerate map: the ship is created at the centre of the planet
      [space |-> Space(100), planets |-> << Planet(<<200, 200>>, 100, 50) >>,
       ships |-> << Ship(<<200, 200>>, VecZero, 0, Weapon(1, 2, 50, 2)) >>] }

\* the controls a bot answers with
Controls ==
    { DEFAULT_STATE,
      [fire |-> TRUE, rotate |-> 0, thrust |-> 0],
      [fire |-> FALSE, rotate |-> 1, thrust |-> 2] }

\* the ways an invocation bot(request) ends with an error
FaultKinds == {"timeout", "crash", "malformed"}

PlanetIds == 0 .. Len(map.planets) - 1
\* the ids run_game gives the ships, and Controllers._ids_bots
NBots == Len(map.ships)
ShipId(b) == Len(map.planets) + b - 1
Bots == 1 .. NBots

\* the create events of the second setup step: planets + ships
InitialEvents ==
    [i \in 1 .. Len(map.planets) + Len(map.ships) |->
        IF i <= Len(map.planets)
        THEN Event(i - 1, "create", Some(map.planets[i]))
        ELSE Event(i - 1, "create", Some(map.ships[i - Len(map.planets)]))]

----------------------------------------------------------------------------
(* run_game and Controllers *)

GameInit ==
    /\ \E sc \in Scenarios, lifetime \in 1 .. MaxLifetime, dt \in 1 .. MaxStepDuration :
          map = [space |-> [dimensions |-> sc.space.dimensions,
                            gravity |-> sc.space.gravity, lifetime |-> lifetime],
                 planets |-> sc.planets, ships |-> sc.ships, step_duration |-> dt]
    /\ pc = "setup0"
    /\ world = [clock |-> -1, time |-> 0, space |-> None, objects |-> NoObjects]
    /\ control = [id \in { Len(map.planets) + b - 1 : b \in 1 .. Len(map.ships) } |->
                     Some(DEFAULT_STATE)]
    /\ nextId = Len(map.planets) + Len(map.ships)
    /\ botIdx = 0
    /\ steps = << >>
    /\ snapshot = NoObjects
    /\ events = << >>
    /\ sent = [b \in 1 .. Len(map.ships) |-> << >>]
    /\ last = [bot |-> 0, outcome |-> "none", alive |-> FALSE, resp |-> None, held |-> None]
    /\ abort = ""

\* the step(data) helper of run_game up to its call of controllers(step_):
\* step_ = dict(clock=world_.clock + 1, duration=step_duration, data=data);
\* world_(step_)

\* yield step(map_spec.space), up to the controllers
Setup0 ==
    /\ pc = "setup0"
    /\ world' = WorldSpace(world, world.clock + 1, map.step_duration, map.space)
    /\ pc' = "controllers"
    /\ botIdx' = 1
    /\ UNCHANGED <<botVars, map, control, nextId, steps, snapshot, events, sent, last, abort>>

\* yield step(planets + ships), up to the controllers
Setup1 ==
    /\ pc = "setup1"
    /\ world' = WorldStep(world, world.clock + 1, map.step_duration, InitialEvents)
    /\ events' = InitialEvents
    /\ snapshot' = world.objects
    /\ pc' = "controllers"
    /\ botIdx' = 1
    /\ UNCHANGED <<botVars, map, control, nextId, steps, sent, last, abort>>

\* (mutant) the loop runs while time <= lifetime
LoopConditionInclusive == world.time <= Val(world.space).lifetime

\* while world_.time < world_.space.lifetime
LoopCondition == world.time < Val(world.space).lifetime

\* the simulator(controllers.control) of the loop
SimulatorCall ==
    Simulate(world.objects, Val(world.space), control, map.step_duration, nextId)

\* while world_.time < world_.space.lifetime: step(simulator(controllers.control)),
\* up to the controllers
SimStepWith(sim) ==
    /\ ~sim.raised
    /\ events' = sim.evs
    /\ nextId' = sim.nid
    /\ world' = WorldStep(world, world.clock + 1, map.step_duration, sim.evs)

SimStep ==
    /\ pc = "loop"
    /\ LoopCondition
    /\ ~AnySingular(world.objects)
    /\ SimStepWith(SimulatorCall)
    /\ snapshot' = world.objects
    /\ pc' = "controllers"
    /\ botIdx' = 1
    /\ UNCHANGED <<botVars, map, control, steps, sent, last, abort>>

\* the simulator call of the loop raises (control['fire'] on a None control):
\* the error leaves the generator
SimRaisesWith(sim) ==
    /\ sim.raised
    /\ nextId' = sim.nid

SimRaises ==
    /\ pc = "loop"
    /\ LoopCondition
    /\ ~AnySingular(world.objects)
    /\ SimRaisesWith(SimulatorCall)
    /\ pc' = "aborted"
    /\ abort' = "TypeError"
    /\ UNCHANGED <<botVars, map, world, control, botIdx, steps, snapshot, events, sent, last>>

\* the simulator call of the loop divides by zero in the gravity loop: the
\* floating-point results (nan) are outside the model, which stops here
SimSingular ==
    /\ pc = "loop"
    /\ LoopCondition
    /\ AnySingular(world.objects)
    /\ pc' = "singular"
    /\ UNCHANGED <<botVars, map, world, control, nextId, botIdx, steps, snapshot, events,
                   sent, last, abort>>

\* the loop condition is false: the generator ends
Finish ==
    /\ pc = "loop"
    /\ ~LoopCondition
    /\ pc' = "done"
    /\ UNCHANGED <<botVars, map, world, control, nextId, botIdx, steps, snapshot, events,
                   sent, last, abort>>

\* Controllers.__call__, one iteration of its loop over _ids_bots.
\* ship = self._world.objects.get(id)
ShipAlive(b) == ShipId(b) \in DOMAIN world.objects

\* (mutant) the assignment stores the default state, not the response
StoreControlDefault(ctl, id, resp) == [ctl EXCEPT ![id] = Some(DEFAULT_STATE)]

\* what the assignment self.control[id] = bot(...) stores
StoreControl(ctl, id, resp) == [ctl EXCEPT ![id] = resp]

\* ship is not None and bot(dict(step=step, ship_id=id)) returns the control c
BotControl(c) ==
    /\ pc = "controllers"
    /\ botIdx <= NBots
    /\ ShipAlive(botIdx)
    /\ control' = StoreControl(control, ShipId(botIdx), Some(c))
    /\ sent' = [sent EXCEPT ![botIdx] = Append(@, Some(ShipId(botIdx)))]
    /\ last' = [bot |-> botIdx, outcome |-> "ok", alive |-> TRUE, resp |-> Some(c),
                held |-> control[ShipId(botIdx)]]
    /\ botIdx' = botIdx + 1
    /\ UNCHANGED <<botVars, map, pc, world, nextId, steps, snapshot, events, abort>>

\* ship is not None and the bot returns the null response (Bot.RESPONSE allows it)
BotNull ==
    /\ pc = "controllers"
    /\ botIdx <= NBots
    /\ ShipAlive(botIdx)
    /\ control' = StoreControl(control, ShipId(botIdx), None)
    /\ sent' = [sent EXCEPT ![botIdx] = Append(@, Some(ShipId(botIdx)))]
    /\ last' = [bot |-> botIdx, outcome |-> "null", alive |-> TRUE, resp |-> None,
                held |-> control[ShipId(botIdx)]]
    /\ botIdx' = botIdx + 1
    /\ UNCHANGED <<botVars, map, pc, world, nextId, steps, snapshot, events, abort>>

\* ship is None: bot(dict(step=step, ship_id=None)) returns; its value is dropped
BotFinalize ==
    /\ pc = "controllers"
    /\ botIdx <= NBots
    /\ ~ShipAlive(botIdx)
    /\ sent' = [sent EXCEPT ![botIdx] = Append(@, None)]
    /\ last' = [bot |-> botIdx, outcome |-> "final", alive |-> FALSE, resp |-> None,
                held |-> control[ShipId(botIdx)]]
    /\ botIdx' = botIdx + 1
    /\ UNCHANGED <<botVars, map, pc, world, control, nextId, steps, snapshot, events, abort>>

\* the invocation raises (a timeout of SubprocessBot.__call__, a closed stream,
\* an undecodable response): nothing in Controllers.__call__ or run_game catches
\* it, so it leaves the generator
BotFault(kind) ==
    /\ pc = "controllers"
    /\ botIdx <= NBots
    /\ sent' = [sent EXCEPT ![botIdx] =
                   Append(@, IF ShipAlive(botIdx) THEN Some(ShipId(botIdx)) ELSE None)]
    /\ last' = [bot |-> botIdx, outcome |-> "fault", alive |-> ShipAlive(botIdx),
                resp |-> None,
                held |-> control[ShipId(botIdx)]]
    /\ pc' = "aborted"
    /\ abort' = kind
    /\ UNCHANGED <<botVars, map, world, control, nextId, botIdx, steps, snapshot, events>>

\* the loop of Controllers.__call__ is over: step() returns step_ and run_game
\* yields it
Yield ==
    /\ pc = "controllers"
    /\ botIdx > NBots
    /\ steps' = Append(steps, [clock |-> world.clock, duration |-> map.step_duration,
                                events |-> events])
    /\ pc' = IF Len(steps) = 0 THEN "setup1" ELSE "loop"
    /\ UNCHANGED <<botVars, map, world, control, nextId, botIdx, snapshot, events, sent,
                   last, abort>>

\* a SubprocessBot just constructed: the child runs, nothing is submitted
BotIdle ==
    /\ caller = [pc |-> "idle", req |-> 0]
    /\ ncalls = 0
    /\ futures = << >>
    /\ queue = << >>
    /\ worker = [pc |-> "idle", req |-> 0]
    /\ shut = FALSE
    /\ child = "running"
    /\ stdinOpen = TRUE
    /\ cin = << >>
    /\ cout = << >>
    /\ written = << >>
    /\ readlog = << >>
    /\ returned = << >>
    /\ timedOut = {}
    /\ rejected = 0

Init == GameInit /\ BotIdle

Next ==
    \/ Setup0
    \/ Setup1
    \/ SimStep
    \/ SimRaises
    \/ SimSingular
    \/ Finish
    \/ \E c \in Controls : BotControl(c)
    \/ BotNull
    \/ BotFinalize
    \/ \E kind \in FaultKinds : BotFault(kind)
    \/ Yield

Spec == Init /\ [][Next]_vars

----------------------------------------------------------------------------
(* bot.py: SubprocessBot (and DockerPythonBot, whose child is the docker run *)
(* client), its one-thread pool and its child process                     *)

\* the game is not part of this specification
GameIdle ==
    /\ map = << >>
    /\ pc = "unused"
    /\ world = << >>
    /\ control = << >>
    /\ nextId = 0
    /\ botIdx = 0
    /\ steps = << >>
    /\ snapshot = << >>
    /\ events = << >>
    /\ sent = << >>
    /\ last = << >>
    /\ abort = ""

InitBot == GameIdle /\ BotIdle

\* a future of the pool: pending, running, done with a value, or ended by the
\* error `why`
Future(state, value, why) == [state |-> state, value |-> value, why |-> why]

\* what the child answers to request number r
Response(r) == [for |-> r]

\* SubprocessBot.__call__: self._pool.submit(self.execute, request), then
\* .result(self._timeout) waits
Call ==
    /\ caller.pc = "idle"
    /\ ~shut
    /\ ncalls < MaxCalls
    /\ ncalls' = ncalls + 1
    /\ futures' = Append(futures, Future("pending", 0, ""))
    /\ queue' = Append(queue, ncalls + 1)
    /\ caller' = [pc |-> "waiting", req |-> ncalls + 1]
    /\ UNCHANGED <<gameVars, worker, shut, child, stdinOpen, cin, cout, written,
                   readlog, returned, timedOut, rejected>>

\* SubprocessBot.__call__ after close(): submit raises RuntimeError
CallRejected ==
    /\ caller.pc \in {"idle", "closed"}
    /\ shut
    /\ rejected < 1
    /\ rejected' = rejected + 1
    /\ UNCHANGED <<gameVars, caller, ncalls, futures, queue, worker, shut, child,
                   stdinOpen, cin, cout, written, readlog, returned, timedOut>>

\* .result(timeout): the future finished with a value, which __call__ returns
ResultReturn ==
    /\ caller.pc = "waiting"
    /\ futures[caller.req].state = "done"
    /\ returned' = Append(returned, [req |-> caller.req, resp |-> futures[caller.req].value])
    /\ caller' = [pc |-> "idle", req |-> 0]
    /\ UNCHANGED <<gameVars, ncalls, futures, queue, worker, shut, child, stdinOpen,
                   cin, cout, written, readlog, timedOut, rejected>>

\* .result(timeout): the future finished with an error, which __call__ raises
ResultRaise ==
    /\ caller.pc = "waiting"
    /\ futures[caller.req].state = "error"
    /\ caller' = [pc |-> "idle", req |-> 0]
    /\ UNCHANGED <<gameVars, ncalls, futures, queue, worker, shut, child, stdinOpen,
                   cin, cout, written, readlog, returned, timedOut, rejected>>

\* (mutant) on a timeout the worker gives up its request and is free again
ResultTimeoutAbandons ==
    /\ caller.pc = "waiting"
    /\ futures[caller.req].state \in {"pending", "running"}
    /\ timedOut' = timedOut \cup {caller.req}
    /\ caller' = [pc |-> "idle", req |-> 0]
    /\ worker' = IF worker.req = caller.req THEN [pc |-> "idle", req |-> 0] ELSE worker
    /\ UNCHANGED <<gameVars, ncalls, futures, queue, shut, child, stdinOpen,
                   cin, cout, written, readlog, returned, rejected>>

\* .result(timeout): the timeout passes before the future finishes; __call__
\* raises TimeoutError and the future stays where it is
ResultTimeout ==
    /\ caller.pc = "waiting"
    /\ futures[caller.req].state \in {"pending", "running"}
    /\ timedOut' = timedOut \cup {caller.req}
    /\ caller' = [pc |-> "idle", req |-> 0]
    /\ UNCHANGED <<gameVars, ncalls, futures, queue, worker, shut, child, stdinOpen,
                   cin, cout, written, readlog, returned, rejected>>

\* the worker thread of ThreadPoolExecutor(1) takes the next work item
ExecuteStart ==
    /\ worker.pc = "idle"
    /\ queue # << >>
    /\ worker' = [pc |-> "write", req |-> Head(queue)]
    /\ queue' = Tail(queue)
    /\ futures' = [futures EXCEPT ![Head(queue)] = Future("running", 0, "")]
    /\ UNCHANGED <<gameVars, caller, ncalls, shut, child, stdinOpen, cin, cout,
                   written, readlog, returned, timedOut, rejected>>

\* (mutant) execute returns after the write, without reading the response
ExecuteWriteNoWait ==
    /\ worker.pc = "write"
    /\ child \in {"running", "mute"} /\ stdinOpen
    /\ cin' = Append(cin, worker.req)
    /\ written' = Append(written, worker.req)
    /\ futures' = [futures EXCEPT ![worker.req] = Future("done", 0, "")]
    /\ worker' = [pc |-> "idle", req |-> 0]
    /\ UNCHANGED <<gameVars, caller, ncalls, queue, shut, child, stdinOpen, cout,
                   readlog, returned, timedOut, rejected>>

\* execute: self._request.write(request); _safe_flush(self._request)
ExecuteWrite ==
    /\ worker.pc = "write"
    /\ child \in {"running", "mute"} /\ stdinOpen
    /\ cin' = Append(cin, worker.req)
    /\ written' = Append(written, worker.req)
    /\ worker' = [worker EXCEPT !.pc = "read"]
    /\ UNCHANGED <<gameVars, caller, ncalls, futures, queue, shut, child, stdinOpen,
                   cout, readlog, returned, timedOut, rejected>>

\* execute: the flush raises BrokenPipeError, the child is gone
ExecuteWriteFails ==
    /\ worker.pc = "write"
    /\ child \notin {"running", "mute"}
    /\ futures' = [futures EXCEPT ![worker.req] = Future("error", 0, "BrokenPipeError")]
    /\ worker' = [pc |-> "idle", req |-> 0]
    /\ UNCHANGED <<gameVars, caller, ncalls, queue, shut, child, stdinOpen, cin, cout,
                   written, readlog, returned, timedOut, rejected>>

\* execute: return next(self._response), a response is there
ExecuteRead ==
    /\ worker.pc = "read"
    /\ cout # << >>
    /\ futures' = [futures EXCEPT ![worker.req] = Future("done", Head(cout).for, "")]
    /\ readlog' = Append(readlog, Head(cout))
    /\ cout' = Tail(cout)
    /\ worker' = [pc |-> "idle", req |-> 0]
    /\ UNCHANGED <<gameVars, caller, ncalls, queue, shut, child, stdinOpen, cin,
                   written, returned, timedOut, rejected>>

\* execute: next(self._response) meets the end of the stream (StopIteration)
ExecuteReadEof ==
    /\ worker.pc = "read"
    /\ cout = << >>
    /\ child # "running"
    /\ futures' = [futures EXCEPT ![worker.req] = Future("error", 0, "StopIteration")]
    /\ worker' = [pc |-> "idle", req |-> 0]
    /\ UNCHANGED <<gameVars, caller, ncalls, queue, shut, child, stdinOpen, cin, cout,
                   written, readlog, returned, timedOut, rejected>>

\* the child (Bot.run_loop): reads one request, writes its response and flushes
ChildAnswer ==
    /\ child = "running"
    /\ cin # << >>
    /\ cout' = Append(cout, Response(Head(cin)))
    /\ cin' = Tail(cin)
    /\ UNCHANGED <<gameVars, caller, ncalls, futures, queue, worker, shut, child,
                   stdinOpen, written, readlog, returned, timedOut, rejected>>

\* the child crashes: both its streams close
ChildExit ==
    /\ child \in {"running", "mute"}
    /\ child' = "exited"
    /\ cin' = << >>
    /\ UNCHANGED <<gameVars, caller, ncalls, futures, queue, worker, shut, stdinOpen,
                   cout, written, readlog, returned, timedOut, rejected>>

\* the child closes its stdout and lives on
ChildCloseStdout ==
    /\ child = "running"
    /\ child' = "mute"
    /\ UNCHANGED <<gameVars, caller, ncalls, futures, queue, worker, shut, stdinOpen,
                   cin, cout, written, readlog, returned, timedOut, rejected>>

\* close(): self._pool.shutdown() refuses new work and then waits for the
\* worker thread
CloseShutdown ==
    /\ caller.pc = "idle"
    /\ ~shut
    /\ shut' = TRUE
    /\ caller' = [pc |-> "shutdown", req |-> 0]
    /\ UNCHANGED <<gameVars, ncalls, futures, queue, worker, child, stdinOpen, cin,
                   cout, written, readlog, returned, timedOut, rejected>>

\* the worker thread has run every submitted work item and ended: shutdown()
\* returns and self._process.communicate(timeout=1) closes the child's stdin
CloseCommunicate ==
    /\ caller.pc = "shutdown"
    /\ worker.pc = "idle"
    /\ queue = << >>
    /\ stdinOpen' = FALSE
    /\ caller' = [pc |-> "communicate", req |-> 0]
    /\ UNCHANGED <<gameVars, ncalls, futures, queue, worker, shut, child, cin, cout,
                   written, readlog, returned, timedOut, rejected>>

\* communicate returns: the child has exited within the grace period
CloseReturn ==
    /\ caller.pc = "communicate"
    /\ child = "exited"
    /\ caller' = [pc |-> "closed", req |-> 0]
    /\ UNCHANGED <<gameVars, ncalls, futures, queue, worker, shut, child, stdinOpen,
                   cin, cout, written, readlog, returned, timedOut, rejected>>

\* communicate raises TimeoutExpired: self._process.kill()
CloseKill ==
    /\ caller.pc = "communicate"
    /\ child # "exited"
    /\ child' = "killed"
    /\ cin' = << >>
    /\ caller' = [pc |-> "closed", req |-> 0]
    /\ UNCHANGED <<gameVars, ncalls, futures, queue, worker, shut, stdinOpen, cout,
                   written, readlog, returned, timedOut, rejected>>

\* DockerPythonBot.close(): subprocess.check_call(['docker', 'kill', name])
\* returns, the container is killed and the child (the docker run client)
\* ends
DockerKillReturns ==
    /\ caller.pc = "idle"
    /\ ~shut
    /\ child' = IF child \in {"running", "mute"} THEN "exited" ELSE child
    /\ cin' = << >>
    /\ caller' = [pc |-> "dockerkilled", req |-> 0]
    /\ UNCHANGED <<gameVars, ncalls, futures, queue, worker, shut, stdinOpen, cout,
                   written, readlog, returned, timedOut, rejected>>

\* DockerPythonBot.close(): docker kill exits with a non-zero status;
\* check_call raises CalledProcessError, which close() passes over
DockerKillFails ==
    /\ caller.pc = "idle"
    /\ ~shut
    /\ caller' = [pc |-> "dockerkilled", req |-> 0]
    /\ UNCHANGED <<gameVars, ncalls, futures, queue, worker, shut, child, stdinOpen,
                   cin, cout, written, readlog, returned, timedOut, rejected>>

\* DockerPythonBot.close(): the docker command cannot be started; check_call
\* raises OSError (FileNotFoundError, ...), which is no CalledProcessError and
\* leaves close()
DockerKillCannotStart ==
    /\ caller.pc = "idle"
    /\ ~shut
    /\ caller' = [pc |-> "closefailed", req |-> 0]
    /\ UNCHANGED <<gameVars, ncalls, futures, queue, worker, shut, child, stdinOpen,
                   cin, cout, written, readlog, returned, timedOut, rejected>>

\* DockerPythonBot.close(): super().close() begins with self._pool.shutdown()
DockerSuperClose ==
    /\ caller.pc = "dockerkilled"
    /\ shut' = TRUE
    /\ caller' = [pc |-> "shutdown", req |-> 0]
    /\ UNCHANGED <<gameVars, ncalls, futures, queue, worker, child, stdinOpen, cin,
                   cout, written, readlog, returned, timedOut, rejected>>

NextBot ==
    \/ Call
    \/ CallRejected
    \/ ResultReturn
    \/ ResultRaise
    \/ ResultTimeout
    \/ ExecuteStart
    \/ ExecuteWrite
    \/ ExecuteWriteFails
    \/ ExecuteRead
    \/ ExecuteReadEof
    \/ ChildAnswer
    \/ ChildExit
    \/ ChildCloseStdout
    \/ CloseShutdown
    \/ CloseCommunicate
    \/ CloseReturn
    \/ CloseKill
    \/ DockerKillReturns
    \/ DockerKillFails
    \/ DockerKillCannotStart
    \/ DockerSuperClose

SpecBot == InitBot /\ [][NextBot]_vars

\* The threads of the parent run: the caller's steps and the worker's steps are
\* taken when they can be.  Nothing is assumed of the child, which may stay
\* silent for ever.
ParentStep ==
    \/ ResultReturn \/ ResultRaise \/ ResultTimeout
    \/ ExecuteStart \/ ExecuteWrite \/ ExecuteWriteFails \/ ExecuteRead
    \/ ExecuteReadEof
    \/ CloseCommunicate \/ CloseReturn \/ CloseKill
    \/ DockerSuperClose

FairSpecBot == InitBot /\ [][NextBot]_vars /\ WF_vars(ParentStep)

----------------------------------------------------------------------------
(* game.py: Simulator.__call__ on its own, applied tick after tick to a world *)
(* that starts from a given snapshot, with any controller_states            *)

\* world_.objects with the ids 0, 1, 2, ... in the order of the bodies
Objects(bodies) == [i \in 0 .. Len(bodies) - 1 |-> bodies[i + 1]]

\* a weapon that is hot when the snapshot is taken
HotWeapon(weapon, temperature) == [weapon EXCEPT !.temperature = temperature]

\* The snapshots the simulator starts from
Snapshots ==
    { \* pellets at the edges of the box: one leaves over the upper x edge, one
      \* over the lower x edge and the upper y edge at once, one over the lower
      \* x edge, and one stays inside until it expires
      [space |-> Space(0),
       objects |-> Objects(<< Pellet(<<390, 200>>, <<10, 0>>, 5),
                              Pellet(<<10, 390>>, <<-10, 10>>, 5),
                              Pellet(<<10, 200>>, <<-10, 0>>, 5),
                              Pellet(<<200, 200>>, <<5, 0>>, 2) >>)],
      \* a pellet inside a ship, and a second ship away from both
      [space |-> Space(0),
       objects |-> Objects(<< Ship(<<100, 100>>, VecZero, 0, Weapon(2, 2, 50, 3)),
                              Pellet(<<150, 100>>, VecZero, 4),
                              Ship(<<300, 300>>, VecZero, 1,
                                   HotWeapon(Weapon(1, 2, 50, 2), 5000)) >>)],
      \* two overlapping planets and a ship, under gravity
      [space |-> Space(100),
       objects |-> Objects(<< Planet(<<180, 200>>, 100, 50),
                              Planet(<<220, 200>>, 100, 50),
                              Ship(<<200, 380>>, VecZero, 1, Weapon(1, 2, 50, 2)) >>)],
      \* two ships facing each other, touching but not overlapping
      [space |-> Space(0),
       objects |-> Objects(<< Ship(<<100, 200>>, VecZero, 0, Weapon(2, 2, 50, 3)),
                              Ship(<<300, 200>>, VecZero, 2, Weapon(1, 1, 50, 1)) >>)],
      \* two ships apart from each other, both facing up, with different weapons
      [space |-> Space(0),
       objects |-> Objects(<< Ship(<<100, 100>>, VecZero, 1, Weapon(2, 2, 50, 3)),
                              Ship(<<300, 300>>, VecZero, 1, Weapon(1, 1, 50, 1)) >>)],
      \* a degenerate snapshot: a pellet lies at the centre of a planet
      [space |-> Space(100),
       objects |-> Objects(<< Planet(<<200, 200>>, 100, 50),
                              Pellet(<<200, 200>>, VecZero, 3) >>)] }

\* the ships of a dict of objects
LiveShips(objs) == { id \in DOMAIN objs : objs[id].kind = "Ship" }

\* the controller_states a caller may pass: for every ship a control, a null
\* control, or no entry at all
ControllerStates(objs) ==
    UNION { [S -> {None} \cup { Some(c) : c \in Controls }] : S \in SUBSET LiveShips(objs) }

SimInit ==
    /\ \E sn \in Snapshots, dt \in 1 .. MaxStepDuration :
          /\ map = [space |-> [dimensions |-> sn.space.dimensions,
                               gravity |-> sn.space.gravity, lifetime |-> MaxTicks * dt],
                    planets |-> << >>, ships |-> << >>, step_duration |-> dt]
          /\ world = [clock |-> 1, time |-> 2 * dt, space |-> Some(map.space),
                      objects |-> sn.objects]
    /\ pc = "sim"
    /\ control = NoObjects
    /\ nextId = Cardinality(DOMAIN world.objects)
    /\ botIdx = 0
    /\ steps = << >>
    /\ snapshot = NoObjects
    /\ events = << >>
    /\ sent = << >>
    /\ last = [bot |-> 0, outcome |-> "none", alive |-> FALSE, resp |-> None, held |-> None]
    /\ abort = ""

\* Simulator.__call__(controller_states) returns its events, which the world
\* then applies
SimulatorReturns(controller_states) ==
    /\ pc = "sim"
    /\ Len(steps) < MaxTicks
    /\ ~AnySingular(world.objects)
    /\ SimStepWith(Simulate(world.objects, Val(world.space), controller_states,
                            map.step_duration, nextId))
    /\ control' = controller_states
    /\ snapshot' = world.objects
    /\ steps' = Append(steps, [clock |-> world.clock + 1, duration |-> map.step_duration,
                                events |-> events'])
    /\ UNCHANGED <<botVars, map, pc, botIdx, sent, last, abort>>

\* Simulator.__call__(controller_states) raises: control['fire'] on a None
\* control
SimulatorRaises(controller_states) ==
    /\ pc = "sim"
    /\ Len(steps) < MaxTicks
    /\ ~AnySingular(world.objects)
    /\ SimRaisesWith(Simulate(world.objects, Val(world.space), controller_states,
                              map.step_duration, nextId))
    /\ control' = controller_states
    /\ snapshot' = world.objects
    /\ pc' = "aborted"
    /\ abort' = "TypeError"
    /\ UNCHANGED <<botVars, map, world, botIdx, steps, events, sent, last>>

\* the gravity loop divides by zero: outside the model, which stops here
SimulatorSingular ==
    /\ pc = "sim"
    /\ Len(steps) < MaxTicks
    /\ AnySingular(world.objects)
    /\ pc' = "singular"
    /\ UNCHANGED <<botVars, map, world, control, nextId, botIdx, steps, snapshot, events,
                   sent, last, abort>>

NextSim ==
    \/ \E cs \in ControllerStates(world.objects) : SimulatorReturns(cs)
    \/ \E cs \in ControllerStates(world.objects) : SimulatorRaises(cs)
    \/ SimulatorSingular

InitSim == SimInit /\ BotIdle

SpecSim == InitSim /\ [][NextSim]_vars

----------------------------------------------------------------------------
(* The claims *)

RECURSIVE SumDurations(_)
SumDurations(ss) == IF ss = << >> THEN 0 ELSE Head(ss).duration + SumDurations(Tail(ss))

Ceil(a, b) == (a + b - 1) \div b

\* the number of requests with ship_id = None issued to bot b
FinalizeCount(b) == Cardinality({ i \in DOMAIN sent[b] : sent[b][i] = None })

\* the reads of the response stream that ended at the end of the stream
ReadsFailed == Cardinality({ i \in DOMAIN futures : futures[i].why = "StopIteration" })

\* C1: a bot fault (timeout, crash, malformed or null response) never ends
\* the run_game generator with an error: the game goes on to its lifetime.
C1_BotFaultNeverAborts ==
    ~(pc = "aborted" /\ abort \in FaultKinds \cup {"TypeError"})

\* C2: hold last control.  For a ship that is in the world, after the bot's
\* invocation the stored control is the bot's response if the invocation
\* returned, and is the control stored before the call if it raised; until a
\* bot has been asked for its live ship the stored control is the default.
C2_HoldLastControl ==
    /\ \A b \in Bots :
          (\A i \in DOMAIN sent[b] : sent[b][i] = None)
             => control[ShipId(b)] = Some(DEFAULT_STATE)
    /\ (last.alive /\ last.outcome \in {"ok", "null"})
          => control[ShipId(last.bot)] = last.resp
    /\ (last.alive /\ last.outcome = "fault")
          => control[ShipId(last.bot)] = last.held

\* C2 witness: an invocation for a live ship raised while a control other than
\* the default was stored
C2_Witness ==
    /\ last.alive /\ last.outcome = "fault"
    /\ last.held = Some([fire |-> TRUE, rotate |-> 0, thrust |-> 0])

\* C3: when a bot's invocation times out at a tick, the game goes on and the
\* ship keeps the control stored before that tick.
C3_TimeoutHoldsControl ==
    abort = "timeout"
       => (pc # "aborted" /\ control[ShipId(last.bot)] = last.held)

\* C4: a fault of one bot's invocation does not keep the other bots from being
\* invoked in the same tick: when Controllers.__call__ is over, every bot has
\* had this tick's request.
C4_OtherBotsStillInvoked ==
    last.outcome = "fault"
       => \A b \in Bots : Len(sent[b]) = Len(steps) + 1

\* C5 as stated: requests are written in submission order and the requests
\* written exceed the responses read by at most one.
C5_WrittenMinusReadAtMostOne ==
    /\ \A i, j \in DOMAIN written : i < j => written[i] < written[j]
    /\ Len(written) - Len(readlog) <= 1

\* C5 amended: requests are written in submission order, and a request is
\* written only after the read of the previous one has ended, with a response
\* or at the end of the stream: the requests written exceed the reads ended
\* by at most one (so the responses read, while no read has failed).
C5_StopAndWait ==
    /\ \A i, j \in DOMAIN written : i < j => written[i] < written[j]
    /\ Len(written) - (Len(readlog) + ReadsFailed) \in {0, 1}
    /\ ReadsFailed = 0 => Len(written) - Len(readlog) \in {0, 1}

\* C5 witness: the wait for request 1 timed out, and request 2 was written
\* once the late response to request 1 had been read
C5_Witness ==
    /\ 1 \in timedOut
    /\ written = <<1, 2>>
    /\ Len(readlog) = 1

\* C6: each bot is sent the finalization request (ship_id = None) at most
\* once in a game.
C6_FinalizedOnce == \A b \in Bots : FinalizeCount(b) <= 1

\* C7: a bot is sent ship_id = None only on a step after its ship was created
\* (step 1) and then destroyed: never on steps 0 and 1.
C7_FinalizeOnlyAfterDestroy ==
    \A b \in Bots : \A i \in DOMAIN sent[b] : sent[b][i] = None => i - 1 >= 2

C9_CloseEventuallyReturns ==
    (caller.pc = "shutdown") ~> (caller.pc = "closed" /\ child \in {"exited", "killed"})

\* C10: the events of a simulator call hold exactly one event for every body
\* of the snapshot, a destroy (empty data) or an update; a colliding ship or
\* pellet and an expiring pellet get the destroy; every other event is the
\* create of a pellet with a new id, yielded just before the update of the
\* ship that fired it.
C10_OneDeltaPerLiveBody ==
    world.clock >= 2
       => /\ \A id \in DOMAIN snapshot :
                /\ Cardinality({ i \in DOMAIN events : events[i].id = id }) = 1
                /\ \A i \in DOMAIN events :
                      events[i].id = id
                         => /\ events[i].op \in {"destroy", "update"}
                            /\ events[i].op = "destroy" <=> events[i].body = None
                            /\ (snapshot[id].kind \in {"Ship", "Pellet"}
                                  /\ _is_collision(id, snapshot))
                                  => events[i].op = "destroy"
                            /\ (snapshot[id].kind = "Pellet"
                                  /\ snapshot[id].ttl - map.step_duration <= 0)
                                  => events[i].op = "destroy"
          /\ \A i \in DOMAIN events :
                events[i].id \notin DOMAIN snapshot
                   => /\ events[i].op = "create"
                      /\ Val(events[i].body).kind = "Pellet"
                      /\ i < Len(events)
                      /\ events[i + 1].op = "update"
                      /\ events[i + 1].id \in DOMAIN snapshot
                      /\ snapshot[events[i + 1].id].kind = "Ship"

\* C10 witness: one simulator call destroyed a ship and a pellet while
\* another ship fired
C10_Witness ==
    /\ world.clock >= 2
    /\ \E i, j, k \in DOMAIN events :
          /\ events[i].op = "destroy" /\ snapshot[events[i].id].kind = "Ship"
          /\ events[j].op = "destroy" /\ snapshot[events[j].id].kind = "Pellet"
          /\ events[k].op = "create"

----------------------------------------------------------------------------
(* The claims about the simulator *)

\* the events of the latest simulator call are the deltas of `snapshot`
Simulated == pc \in {"sim", "singular"} /\ steps # << >>

\* the events of the latest simulator call that carry the identifier id
EventsOf(id) == { i \in DOMAIN events : events[i].id = id }

\* the latest simulator call gave the body id a destroy
Destroyed(id) == \E i \in EventsOf(id) : events[i].op = "destroy"

\* the latest simulator call gave the body id the update u
UpdateOf(id) == Val(events[CHOOSE i \in EventsOf(id) : events[i].op = "update"].body)

\* the position _move_body integrates for the body id of the snapshot, before
\* any wrapping
Integrated(id) ==
    Integrate(snapshot[id], Accel(id, snapshot, map.space, ControlFor(control, id)),
              map.step_duration)

\* C11: every pellet of the snapshot that does not collide and whose newly
\* integrated position is outside [0, dimensions) on either axis gets a
\* destroy.
C11_PelletOutOfBoundsDestroyed ==
    Simulated
       => \A id \in DOMAIN snapshot :
             (/\ snapshot[id].kind = "Pellet"
              /\ ~_is_collision(id, snapshot)
              /\ \E axis \in 1 .. 2 :
                    \/ Integrated(id)[axis] < 0
                    \/ Integrated(id)[axis] >= map.space.dimensions[axis])
                => Destroyed(id)

\* the control the latest simulator call was given for the ship id
ControlOf(id) == Val(ControlFor(control, id))

\* the claimed firing rule for the ship id of the snapshot: the control
\* requests fire, the reload is 0 once dt is taken off it, and the decayed
\* temperature is under max_temperature
ShipFires(id) ==
    /\ ControlOf(id).fire
    /\ Reloaded(Val(snapshot[id].weapon), map.step_duration) = 0
    /\ Cooled(Val(snapshot[id].weapon), map.step_duration)
          < 1000 * Val(snapshot[id].weapon).max_temperature

\* the place of the update of the body id in the events
UpdateIndex(id) == CHOOSE i \in EventsOf(id) : events[i].op = "update"

\* the update of the body id is preceded by a Pellet create
CreatesPellet(id) ==
    /\ UpdateIndex(id) > 1
    /\ events[UpdateIndex(id) - 1].op = "create"
    /\ Val(events[UpdateIndex(id) - 1].body).kind = "Pellet"

\* C12: a ship that is not destroyed this tick fires iff its control requests
\* fire, its reload is 0 after dt is subtracted and its temperature after the
\* decay is under max_temperature; when it fires its reload becomes
\* max_reload, its temperature grows by 1 and it creates exactly one pellet;
\* when it does not, it creates none and keeps the reduced reload and the
\* decayed temperature.  The creates of a tick are as many as the ships that
\* fire, so they add up over the ticks to the ticks on which the rule held.
C12_FiringRule ==
    Simulated
       => /\ \A id \in LiveShips(snapshot) :
                ~Destroyed(id)
                   => /\ ShipFires(id) <=> CreatesPellet(id)
                      /\ Val(UpdateOf(id).weapon).reload =
                            IF ShipFires(id)
                            THEN Val(snapshot[id].weapon).max_reload
                            ELSE Reloaded(Val(snapshot[id].weapon), map.step_duration)
                      /\ Val(UpdateOf(id).weapon).temperature =
                            IF ShipFires(id)
                            THEN Cooled(Val(snapshot[id].weapon), map.step_duration) + 1000
                            ELSE Cooled(Val(snapshot[id].weapon), map.step_duration)
          /\ Cardinality({ i \in DOMAIN events : events[i].op = "create" })
                = Cardinality({ id \in LiveShips(snapshot) :
                                   ~Destroyed(id) /\ ShipFires(id) })

\* C12 witness: in one tick a ship fires while another ship, which also
\* requests fire, does not; an earlier tick created a pellet as well
C12_Witness ==
    /\ Simulated
    /\ Len(steps) >= 2
    /\ \E i \in DOMAIN steps[1].events : steps[1].events[i].op = "create"
    /\ \E a, b \in LiveShips(snapshot) :
          /\ ~Destroyed(a) /\ ControlOf(a).fire /\ ShipFires(a)
          /\ ~Destroyed(b) /\ ControlOf(b).fire /\ ~ShipFires(b)

\* C13: every planet of the snapshot gets an update, never a destroy, and the
\* update leaves its position, velocity and orientation as they were.
C13_PlanetsUnchanged ==
    Simulated
       => \A id \in DOMAIN snapshot :
             snapshot[id].kind = "Planet"
                => /\ ~Destroyed(id)
                   /\ UpdateOf(id).pos = snapshot[id].pos
                   /\ UpdateOf(id).vel = snapshot[id].vel
                   /\ UpdateOf(id).ori = snapshot[id].ori

\* C14: a simulator call whose controller_states hold no control for a ship of
\* the snapshot (no entry, or a null control) raises no error, and gives a
\* ship that does not collide an update with its orientation unchanged and no
\* pellet.
C14_NoControlNoError ==
    \A id \in LiveShips(snapshot) :
       IsNone(ControlFor(control, id))
          => /\ pc # "aborted"
             /\ ~_is_collision(id, snapshot)
                   => /\ ~Destroyed(id)
                      /\ UpdateOf(id).ori = snapshot[id].ori
                      /\ ~CreatesPellet(id)

\* C15: a pellet of the snapshot whose time_to_live - dt <= 0 gets a destroy
\* with empty data and no update; a pellet whose time_to_live - dt > 0, which
\* does not collide and whose new position is inside [0, dimensions), gets an
\* update whose time_to_live is dt smaller.
C15_PelletExpiry ==
    Simulated
       => \A id \in DOMAIN snapshot :
             snapshot[id].kind = "Pellet"
                => /\ snapshot[id].ttl - map.step_duration <= 0
                         => /\ Destroyed(id)
                            /\ \A i \in EventsOf(id) :
                                  events[i].op = "destroy" /\ events[i].body = None
                   /\ (/\ snapshot[id].ttl - map.step_duration > 0
                       /\ ~_is_collision(id, snapshot)
                       /\ \A axis \in 1 .. 2 :
                             /\ Integrated(id)[axis] >= 0
                             /\ Integrated(id)[axis] < map.space.dimensions[axis])
                         => /\ ~Destroyed(id)
                            /\ UpdateOf(id).ttl = snapshot[id].ttl - map.step_duration

\* C15 witness: a pellet that was updated on the tick before, inside the box
\* and away from every body, expires on this tick
C15_Witness ==
    /\ Simulated
    /\ Len(steps) >= 2
    /\ \E id \in DOMAIN snapshot :
          /\ snapshot[id].kind = "Pellet"
          /\ snapshot[id].ttl - map.step_duration <= 0
          /\ ~_is_collision(id, snapshot)
          /\ \A axis \in 1 .. 2 :
                /\ Integrated(id)[axis] >= 0
                /\ Integrated(id)[axis] < map.space.dimensions[axis]
          /\ Destroyed(id)
          /\ \E i \in DOMAIN steps[Len(steps) - 1].events :
                /\ steps[Len(steps) - 1].events[i].id = id
                /\ steps[Len(steps) - 1].events[i].op = "update"

Reverse(s) == [i \in DOMAIN s |-> s[Len(s) + 1 - i]]

\* the events of the latest simulator call, had the bodies of the snapshot
\* been processed in the opposite order
ReversedEvents ==
    SimulateFrom(Reverse(SortedIds(DOMAIN snapshot)), snapshot, map.space, control,
                 map.step_duration, nextId).evs

\* the deltas a list of events holds for the body id
DeltasIn(evs, id) == { evs[i] : i \in { j \in DOMAIN evs : evs[j].id = id } }

\* C19: the delta of every body of the snapshot is the same whatever the
\* order in which the bodies are processed, and when two bodies of the kinds
\* Ship and Pellet are closer than the sum of their radii, both get a destroy
\* in the same tick.
C19_CollisionsMutual ==
    Simulated
       => /\ \A id \in DOMAIN snapshot :
                DeltasIn(events, id) = DeltasIn(ReversedEvents, id)
          /\ \A a, b \in DOMAIN snapshot :
                (/\ a # b
                 /\ snapshot[a].kind \in {"Ship", "Pellet"}
                 /\ snapshot[b].kind \in {"Ship", "Pellet"}
                 /\ DistSq(snapshot[a].pos, snapshot[b].pos)
                       < (snapshot[a].radius + snapshot[b].radius)
                            * (snapshot[a].radius + snapshot[b].radius))
                   => Destroyed(a) /\ Destroyed(b)

\* C19 witness: a ship and a pellet inside it are both destroyed in a tick in
\* which another ship fires
C19_Witness ==
    /\ Simulated
    /\ \E a, b, c \in DOMAIN snapshot :
          /\ snapshot[a].kind = "Ship" /\ snapshot[b].kind = "Pellet"
          /\ DistSq(snapshot[a].pos, snapshot[b].pos)
                < (snapshot[a].radius + snapshot[b].radius)
                     * (snapshot[a].radius + snapshot[b].radius)
          /\ Destroyed(a) /\ Destroyed(b)
          /\ snapshot[c].kind = "Ship" /\ ~Destroyed(c) /\ CreatesPellet(c)

\* the places in the events of the n-th simulator call where the update of the
\* ship id follows a pellet create: the ship fired on that tick
ShotsAt(id, n) ==
    { i \in 2 .. Len(steps[n].events) :
         /\ steps[n].events[i].id = id
         /\ steps[n].events[i].op = "update"
         /\ Val(steps[n].events[i].body).kind = "Ship"
         /\ steps[n].events[i - 1].op = "create" }

\* max_reload of the weapon of the ship updated at place i of the n-th call
MaxReloadAt(n, i) == Val(Val(steps[n].events[i].body).weapon).max_reload

\* the identifiers of the events of the n-th simulator call
IdsAt(n) == { steps[n].events[i].id : i \in DOMAIN steps[n].events }

\* C20: when a ship fires on a tick and again k ticks later, k * dt is at
\* least the max_reload of its weapon; and the reload of every ship's weapon
\* stays within [0, max_reload].
C20_ReloadGap ==
    /\ \A n, m \in DOMAIN steps :
          n < m
             => \A id \in IdsAt(n) :
                   \A i \in ShotsAt(id, n) :
                      ShotsAt(id, m) # {}
                         => (m - n) * map.step_duration >= MaxReloadAt(n, i)
    /\ \A id \in LiveShips(world.objects) :
          /\ Val(world.objects[id].weapon).reload >= 0
          /\ Val(world.objects[id].weapon).reload
                <= Val(world.objects[id].weapon).max_reload

\* C20 witness: a ship that fired on the first tick requests fire on the
\* second, while it is still reloading, and creates no pellet
C20_Witness ==
    /\ Simulated
    /\ Len(steps) = 2
    /\ \E id \in LiveShips(snapshot) :
          /\ ShotsAt(id, 1) # {}
          /\ ~Destroyed(id)
          /\ ControlOf(id).fire
          /\ Val(snapshot[id].weapon).reload > map.step_duration
          /\ ShotsAt(id, 2) = {}

----------------------------------------------------------------------------
(* The claims about a whole game *)

IsCreate(ev) == ev.op = "create"

\* the create events of a sequence of steps, in the order they were emitted
RECURSIVE CreatesOf(_)
CreatesOf(ss) ==
    IF ss = << >> THEN << >>
    ELSE SelectSeq(Head(ss).events, IsCreate) \o CreatesOf(Tail(ss))

\* every create event of the game so far: those of the steps yielded, and
\* those of the step the world has applied and the controllers are being
\* asked about
AllCreates ==
    CreatesOf(steps) \o
        (IF world.clock = Len(steps) THEN SelectSeq(events, IsCreate) ELSE << >>)

\* C16: over a game every create event carries an identifier greater than
\* that of every create event before it, and smaller than the next value of
\* the generator: no identifier is given twice.
C16_IdsNeverReused ==
    /\ \A i, j \in DOMAIN AllCreates : i < j => AllCreates[i].id < AllCreates[j].id
    /\ \A i \in DOMAIN AllCreates : AllCreates[i].id < nextId

\* C16 witness: a pellet is created after bodies created earlier were
\* destroyed
C16_Witness ==
    /\ pc = "controllers"
    /\ world.clock >= 3
    /\ \E i \in DOMAIN events :
          /\ events[i].op = "create"
          /\ \E k \in 0 .. events[i].id - 1 :
                k \notin DOMAIN snapshot /\ k \notin DOMAIN world.objects

----------------------------------------------------------------------------
(* The claims about the bot channel *)

\* C17: DockerPythonBot.close() never ends with the failure of its docker
\* kill command: whatever way the command fails, close() goes on to the
\* teardown of SubprocessBot.close.
C17_DockerCloseBestEffort == caller.pc # "closefailed"

\* C18: every value a __call__(request) returns is the child's response to
\* that same request, whatever waits timed out before and however late the
\* child answered.
C18_ResponsesMatchRequests ==
    \A i \in DOMAIN returned : returned[i].resp = Response(returned[i].req).for

\* C18 witness: the wait for request 1 timed out, the child answered it late,
\* and the call for request 2 returned
C18_Witness ==
    /\ 1 \in timedOut
    /\ Response(1) \in Range(readlog)
    /\ \E i \in DOMAIN returned : returned[i].req = 2

====
